---- MODULE Spec2Model ----
(***************************************************************************)
(* A model of the two scripts of python-Pydantics:                         *)
(*   src/main.py         the pydantic (v1 API) record schemas Subject,     *)
(*                       Address, EmergencyContact and Student, the one    *)
(*                       Student built from literals, and student.json()   *)
(*   src/args_kwargs.py  demo_function and its two calls                  *)
(*                                                                         *)
(* Python text is a sequence of one-character strings where the code looks *)
(* inside it (phone and the name fields) and an atomic string where it     *)
(* does not.  Python's None is the record None.  A date is a record        *)
(* [year, month, day].  A float is held in tenths (gpa 3.8 is 38).          *)
(*                                                                         *)
(* Each part of the scripts has its own specification; a specification     *)
(* leaves the other parts' variables at their initial values.              *)
(*   SpecContact  EmergencyContact(...)                                    *)
(*   SpecSubject  Subject(...), attribute assignment on a Subject          *)
(*   SpecDemo     demo_function, stepped statement by statement            *)
(*   SpecStudent  Student(...) and student.json()                          *)
(*   SpecAssign   Student(...), attribute assignment and student.json()    *)
(***************************************************************************)
EXTENDS Integers, Sequences, FiniteSets, TLC

VARIABLES
    \* EmergencyContact
    ecCall,      \* keyword arguments of the last EmergencyContact(...) call
    contact,     \* the object it returned, None when it raised
    ecRaised,    \* whether it raised ValidationError
    \* Subject
    subjCall,    \* the last operation on the Subject and its arguments
    subject,     \* the Subject object, None before the first construction
    subjRaised,  \* whether the last operation raised
    held,        \* whether the Subject is an element of a Student's subjects
    \* demo_function
    lst,         \* the caller's sequence
    info,        \* the caller's mapping (a dict: pairs in insertion order)
    mode,        \* "explicit": elements passed one by one; "spread": unpacked
    args,        \* the callee's args tuple
    kwargs,      \* the callee's kwargs dict
    out,         \* lines written to standard output by the current call
    pc,          \* the callee's position
    idx,         \* loop position inside the callee
    \* Student
    today,       \* date.today() / datetime.now() of this run
    kw,          \* keyword arguments of the Student(...) call
    res,         \* what validate_model returned for it
    student,     \* the Student object's __dict__, NoDict when there is none
    phase,       \* "start", "built", "failed"
    lastOp,      \* the last attribute assignment on the Student and its outcome
    nAssign,     \* number of assignments done
    printed      \* the text student.json() produced, NoDict before

contactVars == <<ecCall, contact, ecRaised>>
subjectVars == <<subjCall, subject, subjRaised, held>>
demoVars    == <<lst, info, mode, args, kwargs, out, pc, idx>>
studentVars == <<today, kw, res, student, phase, lastOp, nAssign, printed>>
vars == <<contactVars, subjectVars, demoVars, studentVars>>

None == [none |-> TRUE]
NoDict == [f \in {} |-> None]

\* ------------------------------------------------------------------ bounds
MaxPhoneLen == 3
MaxCreditsInput == 8
MaxArgs == 3
MaxAssign == 2
MaxNameLen == 2

\* Sequences over S of length 0..n
RECURSIVE SeqsUpTo(_, _)
SeqsUpTo(S, n) ==
    IF n = 0 THEN {<<>>}
    ELSE LET shorter == SeqsUpTo(S, n - 1)
         IN shorter \cup {Append(s, x) : s \in {t \in shorter : Len(t) = n - 1}, x \in S}

\* ------------------------------------------------- Python text operations
Digits == {"0", "1", "2", "3", "4", "5", "6", "7", "8", "9"}

\* str.replace(old, '') for a one-character old
RECURSIVE StrRemove(_, _)
StrRemove(s, ch) ==
    IF s = <<>> THEN <<>>
    ELSE IF Head(s) = ch THEN StrRemove(Tail(s), ch)
         ELSE <<Head(s)>> \o StrRemove(Tail(s), ch)

\* str.isdigit(): at least one character, and all of them digits
IsDigit(s) == Len(s) > 0 /\ \A i \in 1..Len(s) : s[i] \in Digits

\* ------------------------------------------------------- EmergencyContact
\* @validator('phone'): raises when the text without hyphens is not isdigit()
validate_phone(v) ==
    IF ~IsDigit(StrRemove(v, "-"))
    THEN [raised |-> TRUE, value |-> v]
    ELSE [raised |-> FALSE, value |-> v]

PhoneChars == {"5", "0", "-", "a", " "}
PhoneInputs == SeqsUpTo(PhoneChars, MaxPhoneLen)
ContactNames == {"Robert Smith", "Ann"}

\* EmergencyContact(name=n, relationship=r, phone=p)
NewEmergencyContact(n, r, p) ==
    LET checked == validate_phone(p) IN
    /\ ecCall = None
    /\ ecCall' = [name |-> n, relationship |-> r, phone |-> p]
    /\ ecRaised' = checked.raised
    /\ contact' = IF checked.raised THEN None
                  ELSE [name |-> n, relationship |-> r, phone |-> checked.value]
    /\ UNCHANGED <<subjectVars, demoVars, studentVars>>

\* ---------------------------------------------------------------- Subject
CreditsGe == 1
CreditsLe == 6

\* credits: int = Field(ge=1, le=6)
CreditsOkStrict(c) == c > CreditsGe /\ c <= CreditsLe
CreditsOk(c) == c >= CreditsGe /\ c <= CreditsLe

CreditsInputs == (0 - 1)..MaxCreditsInput
SubjectNames == {"Computer Science", "Mathematics"}
SubjectCodes == {"CS101", "MATH201"}
SubjectFields == {"name", "code", "credits"}
AttrNames == SubjectFields \cup {"level"}

\* Subject(name=n, code=k, credits=c)
NewSubject(n, k, c) ==
    /\ subjCall' = [op |-> "new", name |-> n, code |-> k, credits |-> c]
    /\ subjRaised' = ~CreditsOk(c)
    /\ subject' = IF CreditsOk(c) THEN [name |-> n, code |-> k, credits |-> c] ELSE None
    /\ held' = FALSE
    /\ UNCHANGED <<contactVars, demoVars, studentVars>>

\* Student(..., subjects=[subject], ...): the list element is a Subject object
\* with this Subject's field values (the object itself or pydantic's copy of
\* it), assignable through student.subjects[0]
HoldInStudent ==
    /\ subject # None
    /\ ~held
    /\ subjCall' = [op |-> "hold"]
    /\ subjRaised' = FALSE
    /\ held' = TRUE
    /\ UNCHANGED subject
    /\ UNCHANGED <<contactVars, demoVars, studentVars>>

\* BaseModel.__setattr__ under Subject's configuration (no Config class: extra is
\* ignore, allow_mutation is on, validate_assignment is off): an unknown name
\* raises, a field's name stores the value as it is.
SetattrValidated(obj, name, value) ==
    IF name \notin SubjectFields THEN [raised |-> TRUE, obj |-> obj]
    ELSE IF name = "credits" /\ ~CreditsOk(value) THEN [raised |-> TRUE, obj |-> obj]
    ELSE [raised |-> FALSE, obj |-> [obj EXCEPT ![name] = value]]
SubjectSetattr(obj, name, value) ==
    IF name \notin SubjectFields THEN [raised |-> TRUE, obj |-> obj]
    ELSE [raised |-> FALSE, obj |-> [obj EXCEPT ![name] = value]]

AttrInputs(name) ==
    CASE name = "credits" -> CreditsInputs
      [] name = "name" -> SubjectNames
      [] name = "code" -> SubjectCodes
      [] OTHER -> {"x"}

\* subject.<name> = value, or student.subjects[0].<name> = value when held
AssignSubjectAttr(name, value) ==
    LET r == SubjectSetattr(subject, name, value) IN
    /\ subject # None
    /\ subjCall' = [op |-> "setattr", name |-> name, value |-> value]
    /\ subjRaised' = r.raised
    /\ subject' = r.obj
    /\ UNCHANGED held
    /\ UNCHANGED <<contactVars, demoVars, studentVars>>

\* ---------------------------------------------------------- demo_function
\* A dict is a sequence of <<key, value>> pairs in insertion order, keys unique.
DictKeys(d) == {d[i][1] : i \in 1..Len(d)}

\* d[k] = v: a present key keeps its place, a new key goes last
DictSet(d, k, v) ==
    IF k \in DictKeys(d)
    THEN [i \in 1..Len(d) |-> IF d[i][1] = k THEN <<k, v>> ELSE d[i]]
    ELSE Append(d, <<k, v>>)

\* the positional arguments of a call, written one by one, collected into args
RECURSIVE CollectArgsReversed(_)
CollectArgsReversed(elems) ==
    IF elems = <<>> THEN <<>>
    ELSE CollectArgsReversed(Tail(elems)) \o <<Head(elems)>>
RECURSIVE CollectArgs(_)
CollectArgs(elems) ==
    IF elems = <<>> THEN <<>>
    ELSE <<Head(elems)>> \o CollectArgs(Tail(elems))

\* the keyword arguments of a call, written one by one, collected into kwargs
RECURSIVE CollectKwargs(_, _)
CollectKwargs(d, pairs) ==
    IF pairs = <<>> THEN d
    ELSE CollectKwargs(DictSet(d, Head(pairs)[1], Head(pairs)[2]), Tail(pairs))

\* *seq in a call: the iteration of seq, element by element, as a tuple
UnpackSeq(seq) == [i \in 1..Len(seq) |-> seq[i]]

\* **mapping in a call: a new dict filled in the mapping's iteration order
UnpackMapping(m) == CollectKwargs(<<>>, [i \in 1..Len(m) |-> <<m[i][1], m[i][2]>>])

\* print(f"  Argument {i}: {arg}") and print(f"  {key}: {value}")
ArgLineOneBased(i, arg) == [text |-> "  Argument ", index |-> i + 1, value |-> arg]
ArgLine(i, arg) == [text |-> "  Argument ", index |-> i, value |-> arg]
KwLine(key, value) == [indent |-> "  ", key |-> key, sep |-> ": ", value |-> value]
Header(text) == [header |-> text]

ArgValues == {10, 20}
KwNames == {"fruit", "color"}
KwValues == {"apple", "red"}
SeqInputs == SeqsUpTo(ArgValues, MaxArgs)
MappingInputs ==
    {m \in SeqsUpTo(KwNames \X KwValues, Cardinality(KwNames)) :
        \A i, j \in 1..Len(m) : i # j => m[i][1] # m[j][1]}

\* demo_function(a1, ..., k1=v1, ...) with the elements of l and m written out
CallExplicit(l, m) ==
    /\ pc = "idle"
    /\ lst' = l /\ info' = m /\ mode' = "explicit"
    /\ args' = CollectArgs(l)
    /\ kwargs' = CollectKwargs(<<>>, m)
    /\ out' = <<>> /\ idx' = 0
    /\ pc' = "args_header"
    /\ UNCHANGED <<contactVars, subjectVars, studentVars>>

\* demo_function(*l, **m)
CallSpread(l, m) ==
    /\ pc = "idle"
    /\ lst' = l /\ info' = m /\ mode' = "spread"
    /\ args' = UnpackSeq(l)
    /\ kwargs' = UnpackMapping(m)
    /\ out' = <<>> /\ idx' = 0
    /\ pc' = "args_header"
    /\ UNCHANGED <<contactVars, subjectVars, studentVars>>

PrintArgsHeader ==
    /\ pc = "args_header"
    /\ out' = Append(out, Header("Positional arguments (*args) received:"))
    /\ idx' = 0
    /\ pc' = "args_loop"
    /\ UNCHANGED <<lst, info, mode, args, kwargs>>
    /\ UNCHANGED <<contactVars, subjectVars, studentVars>>

\* one iteration of: for i, arg in enumerate(args)
PrintArg ==
    /\ pc = "args_loop"
    /\ idx < Len(args)
    /\ out' = Append(out, ArgLine(idx, args[idx + 1]))
    /\ idx' = idx + 1
    /\ UNCHANGED <<lst, info, mode, args, kwargs, pc>>
    /\ UNCHANGED <<contactVars, subjectVars, studentVars>>

PrintKwargsHeader ==
    /\ pc = "args_loop"
    /\ idx = Len(args)
    /\ out' = Append(out, Header("\nKeyword arguments (**kwargs) received:"))
    /\ idx' = 0
    /\ pc' = "kwargs_loop"
    /\ UNCHANGED <<lst, info, mode, args, kwargs>>
    /\ UNCHANGED <<contactVars, subjectVars, studentVars>>

\* one iteration of: for key, value in kwargs.items()
PrintKwarg ==
    /\ pc = "kwargs_loop"
    /\ idx < Len(kwargs)
    /\ out' = Append(out, KwLine(kwargs[idx + 1][1], kwargs[idx + 1][2]))
    /\ idx' = idx + 1
    /\ UNCHANGED <<lst, info, mode, args, kwargs, pc>>
    /\ UNCHANGED <<contactVars, subjectVars, studentVars>>

Return ==
    /\ pc = "kwargs_loop"
    /\ idx = Len(kwargs)
    /\ pc' = "done"
    /\ UNCHANGED <<lst, info, mode, args, kwargs, out, idx>>
    /\ UNCHANGED <<contactVars, subjectVars, studentVars>>

\* the script goes on to its next call
NextCall ==
    /\ pc = "done"
    /\ pc' = "idle"
    /\ UNCHANGED <<lst, info, mode, args, kwargs, out, idx>>
    /\ UNCHANGED <<contactVars, subjectVars, studentVars>>

\* ---------------------------------------------------------------- Student
\* The fields modelled, in declaration order.  active, subjects,
\* favorite_subjects, grades, phone, website, emergency_contacts, notes and tags
\* are left out: each has a default, none has a validator of the class, and no
\* validator or serializer rule modelled here reads them.
FieldOrder ==
    <<"id", "first_name", "last_name", "full_name", "email", "password",
      "date_of_birth", "age", "gender", "gpa", "address", "enrollment_date",
      "graduation_year">>
FieldNames == {FieldOrder[i] : i \in 1..Len(FieldOrder)}

\* fields declared without a default
RequiredFields ==
    {"id", "first_name", "last_name", "email", "password", "date_of_birth",
     "gender", "address"}
\* Optional[...] fields: None is a value of theirs, held as None or Some(x)
OptionalFields == {"full_name", "age", "graduation_year"}
\* fields with a validator declared always=True
AlwaysFields == {"full_name", "age"}

Some(x) == [val |-> x]

Restrict(f, D) == [x \in D |-> f[x]]

\* dict.get(key)
Get(values, key) == IF key \in DOMAIN values THEN values[key] ELSE None

\* the default of a field that has one; datetime.now() for enrollment_date
DefaultOf(f, now) ==
    CASE f = "gpa" -> 0
      [] f = "enrollment_date" -> now
      [] OTHER -> None

\* class Gender
GenderValues == {"male", "female", "other"}

\* EmailStr accepts the texts of valid email syntax; of the texts given as input
\* in this model these are the ones
WellFormedEmails == {"jane.smith@university.edu"}

GpaGe == 0
GpaLe == 40

\* the type's own validators of a field: "" when the value passes, else the error
TypeValidate(f, v) ==
    CASE f = "email" -> IF v \in WellFormedEmails THEN "" ELSE "value_error.email"
      [] f = "gender" -> IF v \in GenderValues THEN "" ELSE "type_error.enum"
      [] f = "gpa" -> IF v < GpaGe THEN "value_error.number.not_ge"
                      ELSE IF v > GpaLe THEN "value_error.number.not_le"
                      ELSE ""
      [] OTHER -> ""

\* what the type's validators return for a value that passes: password: SecretStr
\* wraps the text, the other fields modelled keep the value given
Coerce(f, v) == IF f = "password" THEN [secret |-> v] ELSE v

\* Python truth of an Optional[str] / Optional[int] value
TruthyText(v) == v # None /\ v.val # <<>>
TruthyInt(v) == v # None /\ v.val # 0

\* @validator('full_name', always=True)
set_full_name_never(v, values) ==
    IF "first_name" \in DOMAIN values /\ "last_name" \in DOMAIN values
    THEN Some(values["first_name"] \o <<" ">> \o values["last_name"])
    ELSE v
set_full_name(v, values) ==
    IF TruthyText(v) THEN v
    ELSE IF "first_name" \in DOMAIN values /\ "last_name" \in DOMAIN values
         THEN Some(values["first_name"] \o <<" ">> \o values["last_name"])
         ELSE v

\* tuple comparison a < b
RECURSIVE TupleLessOrEqual(_, _)
TupleLessOrEqual(a, b) ==
    IF a = <<>> THEN TRUE
    ELSE IF b = <<>> THEN FALSE
    ELSE IF Head(a) # Head(b) THEN Head(a) < Head(b)
    ELSE TupleLessOrEqual(Tail(a), Tail(b))
RECURSIVE TupleLess(_, _)
TupleLess(a, b) ==
    IF b = <<>> THEN FALSE
    ELSE IF a = <<>> THEN TRUE
    ELSE IF Head(a) # Head(b) THEN Head(a) < Head(b)
    ELSE TupleLess(Tail(a), Tail(b))

\* int(bool)
BoolInt(b) == IF b THEN 1 ELSE 0

\* @validator('age', always=True)
calculate_age(v, values, now) ==
    IF v # None THEN v
    ELSE IF "date_of_birth" \in DOMAIN values
         THEN LET dob == values["date_of_birth"] IN
              Some(now.year - dob.year
                   - BoolInt(TupleLess(<<now.month, now.day>>, <<dob.month, dob.day>>)))
         ELSE None

\* @root_validator: TRUE when it raises
check_graduation_year(values) ==
    /\ TruthyInt(Get(values, "graduation_year"))
    /\ Get(values, "enrollment_date") # None
    /\ values["graduation_year"].val < values["enrollment_date"].year

\* the validators of the class declared for a field (its post validators)
PostValidate(f, v, values, now) ==
    CASE f = "full_name" ->
            [err |-> "", value |-> set_full_name(v, values), ran |-> <<"set_full_name">>]
      [] f = "age" ->
            [err |-> "", value |-> calculate_age(v, values, now), ran |-> <<"calculate_age">>]
      [] OTHER -> [err |-> "", value |-> v, ran |-> <<>>]

\* ModelField.validate: None of an Optional field goes to the class's validators
\* directly; any other value passes the type's validators first
FieldValidate(f, v, values, now) ==
    IF f \in OptionalFields /\ v = None THEN PostValidate(f, v, values, now)
    ELSE LET e == TypeValidate(f, IF f \in OptionalFields THEN v.val ELSE v) IN
         IF e # "" THEN [err |-> e, value |-> v, ran |-> <<>>]
         ELSE PostValidate(f, Coerce(f, v), values, now)

\* one turn of validate_model's loop over the fields
FieldStep(acc, f, input, now) ==
    LET validated(v) ==
            LET r == FieldValidate(f, v, acc.values, now) IN
            IF r.err # ""
            THEN [acc EXCEPT !.errors = Append(@, <<f, r.err>>),
                             !.ran = @ \o <<f>> \o r.ran]
            ELSE [acc EXCEPT !.values = @ @@ (f :> r.value),
                             !.ran = @ \o <<f>> \o r.ran]
    IN  IF f \notin DOMAIN input
        THEN IF f \in RequiredFields
             THEN [acc EXCEPT !.errors = Append(@, <<f, "value_error.missing">>)]
             ELSE IF f \notin AlwaysFields
                  THEN [acc EXCEPT !.values = @ @@ (f :> DefaultOf(f, now))]
                  ELSE validated(DefaultOf(f, now))
        ELSE validated(input[f])

RECURSIVE FieldLoop(_, _, _, _)
FieldLoop(acc, fields, input, now) ==
    IF fields = <<>> THEN acc
    ELSE FieldLoop(FieldStep(acc, Head(fields), input, now), Tail(fields), input, now)

\* Config.extra = "forbid": one error per keyword that names no field
RECURSIVE ExtraErrors(_)
ExtraErrors(names) ==
    IF names = {} THEN <<>>
    ELSE LET n == CHOOSE x \in names : TRUE
         IN <<<<n, "value_error.extra">>>> \o ExtraErrors(names \ {n})

\* the root validators of the class run after the fields, here with
\* skip_on_failure as given
RunRootValidators(acc, skip_on_failure) ==
    IF skip_on_failure /\ acc.errors # <<>> THEN acc
    ELSE IF check_graduation_year(acc.values)
         THEN [acc EXCEPT !.errors = Append(@, <<"__root__", "value_error">>),
                          !.ran = Append(@, "check_graduation_year")]
         ELSE [acc EXCEPT !.ran = Append(@, "check_graduation_year")]

PostRootSkipping(acc) == RunRootValidators(acc, TRUE)
\* @root_validator is declared without skip_on_failure
PostRoot(acc) == RunRootValidators(acc, FALSE)

\* validate_model(Student, input)
validate_model(input, now) ==
    LET afterFields == FieldLoop([values |-> NoDict, errors |-> <<>>, ran |-> <<>>],
                                 FieldOrder, input, now)
        afterExtra == [afterFields EXCEPT
                          !.errors = @ \o ExtraErrors(DOMAIN input \ FieldNames)]
    IN  PostRoot(afterExtra)

\* Student.__setattr__ under Config.validate_assignment = True, extra = "forbid":
\* an unknown name raises; the field's validators run on the value with the other
\* attributes as values, then the root validators run on the would-be __dict__;
\* __dict__ is replaced only when nothing raised.
StudentSetattrNoRoot(obj, name, value, now) ==
    IF name \notin FieldNames THEN [raised |-> TRUE, obj |-> obj]
    ELSE LET r == FieldValidate(name, value, Restrict(obj, DOMAIN obj \ {name}), now) IN
         IF r.err # "" THEN [raised |-> TRUE, obj |-> obj]
         ELSE [raised |-> FALSE, obj |-> [obj EXCEPT ![name] = r.value]]
StudentSetattr(obj, name, value, now) ==
    IF name \notin FieldNames THEN [raised |-> TRUE, obj |-> obj]
    ELSE LET r == FieldValidate(name, value, Restrict(obj, DOMAIN obj \ {name}), now) IN
         IF r.err # "" THEN [raised |-> TRUE, obj |-> obj]
         ELSE LET new_values == [obj EXCEPT ![name] = r.value] IN
              IF check_graduation_year(new_values) THEN [raised |-> TRUE, obj |-> obj]
              ELSE [raised |-> FALSE, obj |-> new_values]

\* str(SecretStr): the mask for a non-empty secret, the empty text for an empty one
SecretStrTextRaw(secret) == secret.secret
SecretStrText(secret) == IF secret.secret # "" THEN "**********" ELSE ""

\* date.isoformat(): year, month and day joined by hyphens
IsoFormat(d) == <<d.year, "-", d.month, "-", d.day>>

\* the JSON value of one attribute: a quoted text, a number or null
Encode(f, v) ==
    CASE f \in OptionalFields ->
            IF v = None THEN [null |-> TRUE]
            ELSE IF f = "full_name" THEN [q |-> v.val] ELSE [n |-> v.val]
      [] f = "password" -> [q |-> SecretStrText(v)]
      [] f \in {"date_of_birth", "enrollment_date"} -> [q |-> IsoFormat(v)]
      [] f \in {"id", "gpa"} -> [n |-> v]
      [] OTHER -> [q |-> v]

\* student.json(): every attribute under its field name
Json(obj) == [f \in DOMAIN obj |-> Encode(f, obj[f])]

\* --------------------------------------------------- Student: the inputs
Date(y, m, d) == [year |-> y, month |-> m, day |-> d]

\* the keyword arguments of the script's Student(...) call
Literal ==
    [id |-> 1001,
     first_name |-> <<"J", "a", "n", "e">>,
     last_name |-> <<"S", "m", "i", "t", "h">>,
     email |-> "jane.smith@university.edu",
     password |-> "SecurePassword123",
     date_of_birth |-> Date(2000, 5, 15),
     gender |-> "female",
     gpa |-> 38,
     address |-> "456 University Ave",
     graduation_year |-> Some(2024)]

Req(f, S) == {f :> v : v \in S}
Opt(f, S) == Req(f, S) \cup {NoDict}
Without(D) == Restrict(Literal, DOMAIN Literal \ D)

MonthDays == {<<4, 20>>, <<5, 14>>, <<5, 15>>, <<5, 16>>, <<6, 10>>}
Dates(years) == {Date(y, md[1], md[2]) : y \in years, md \in MonthDays}
TodayInputs == {Date(2024, 5, 15), Date(2024, 4, 20), Date(2025, 6, 10)}

\* enrollment_date and graduation_year against failing and passing other fields
GradInputs ==
    {a @@ b @@ c @@ d @@ e @@ g @@ x
        @@ Without({"graduation_year", "email", "gpa", "first_name", "address"}) :
        a \in Opt("enrollment_date", {Date(2021, 9, 1), Date(2023, 9, 1)}),
        b \in Opt("graduation_year",
                  {None, Some(0), Some(0 - 1), Some(2020), Some(2021), Some(2024)}),
        c \in Req("email", {"jane.smith@university.edu", "not-an-email"}),
        d \in Opt("gpa", {38, 41}),
        e \in Opt("first_name", {<<"J", "a", "n", "e">>}),
        g \in Opt("address", {"456 University Ave"}),
        x \in Opt("nickname", {"JS"})}

NameChars == {"J", "s"}
NameInputs ==
    {a @@ b @@ c @@ Without({"first_name", "last_name"}) :
        a \in Opt("first_name", SeqsUpTo(NameChars, MaxNameLen)),
        b \in Req("last_name", SeqsUpTo(NameChars, MaxNameLen)),
        c \in Opt("full_name", {None, Some(<<>>), Some(<<"J", "S">>), Some(<<" ">>)})}

AgeInputs ==
    {a @@ b @@ Without({"date_of_birth"}) :
        a \in Req("date_of_birth", Dates({2000, 2023, 2024, 2026})),
        b \in Opt("age", {None, Some(0), Some(30)})}

PasswordInputs == {"", "SecurePassword123", "hunter2", "**********"}
SecretInputs ==
    {a @@ b @@ c @@ Without({"password", "gpa"}) :
        a \in Req("password", PasswordInputs),
        b \in Opt("gpa", {38, 20, 41}),
        c \in Opt("full_name", {Some(<<"J", "S">>)})}

ConstructInputs == GradInputs \cup NameInputs \cup AgeInputs \cup SecretInputs

\* what the assignments of SpecAssign start from and assign
AssignBaseInputs ==
    {a @@ Without({"graduation_year"}) :
        a \in Opt("graduation_year", {Some(2024)})}
AssignNames == FieldNames \cup {"nickname"}
AssignInputs(name) ==
    CASE name = "first_name" -> {<<"A">>}
      [] name = "full_name" -> {None, Some(<<>>), Some(<<"X">>)}
      [] name = "email" -> {"jane.smith@university.edu", "not-an-email"}
      [] name = "password" -> {""}
      [] name = "age" -> {None, Some(5)}
      [] name = "gender" -> {"other", "robot"}
      [] name = "gpa" -> {20, 41}
      [] name = "enrollment_date" -> {Date(2021, 9, 1), Date(2025, 9, 1)}
      [] name = "graduation_year" -> {None, Some(0), Some(2020), Some(2024), Some(2030)}
      [] name = "nickname" -> {"JS"}
      [] OTHER -> {}

\* -------------------------------------------------- Student: the actions
\* student = Student(**k): BaseModel.__init__ raises when validate_model reports
\* errors, else the values become the object's __dict__
Construct(k) ==
    LET r == validate_model(k, today) IN
    /\ phase = "start"
    /\ kw' = k
    /\ res' = r
    /\ student' = IF r.errors = <<>> THEN r.values ELSE NoDict
    /\ phase' = IF r.errors = <<>> THEN "built" ELSE "failed"
    /\ UNCHANGED <<today, lastOp, nAssign, printed>>
    /\ UNCHANGED <<contactVars, subjectVars, demoVars>>

\* student.<name> = value
Assign(name, value) ==
    LET r == StudentSetattr(student, name, value, today) IN
    /\ phase = "built"
    /\ nAssign < MaxAssign
    /\ lastOp' = [name |-> name, value |-> value, raised |-> r.raised]
    /\ student' = r.obj
    /\ nAssign' = nAssign + 1
    /\ UNCHANGED <<today, kw, res, phase, printed>>
    /\ UNCHANGED <<contactVars, subjectVars, demoVars>>

\* print(student.json(indent=2))
PrintJson ==
    /\ phase = "built"
    /\ printed' = Json(student)
    /\ phase' = "printed"
    /\ UNCHANGED <<today, kw, res, student, lastOp, nAssign>>
    /\ UNCHANGED <<contactVars, subjectVars, demoVars>>

\* --------------------------------------------------- the specifications
\* --------------------------------------------------- the specifications
\* the state before any of the scripts' statements has run
Init ==
    /\ ecCall = None
    /\ contact = None
    /\ ecRaised = FALSE
    /\ subjCall = [op |-> "none"]
    /\ subject = None
    /\ subjRaised = FALSE
    /\ held = FALSE
    /\ lst = <<>>
    /\ info = <<>>
    /\ mode = "explicit"
    /\ args = <<>>
    /\ kwargs = <<>>
    /\ out = <<>>
    /\ pc = "idle"
    /\ idx = 0
    /\ today \in TodayInputs
    /\ kw = NoDict
    /\ res = None
    /\ student = NoDict
    /\ phase = "start"
    /\ lastOp = None
    /\ nAssign = 0
    /\ printed = NoDict

ContactNext ==
    \E n \in ContactNames, p \in PhoneInputs : NewEmergencyContact(n, "Father", p)

SubjectNext ==
    \/ \E n \in SubjectNames, k \in SubjectCodes, c \in CreditsInputs : NewSubject(n, k, c)
    \/ HoldInStudent
    \/ \E name \in AttrNames : \E value \in AttrInputs(name) : AssignSubjectAttr(name, value)

DemoNext ==
    \/ \E l \in SeqInputs, m \in MappingInputs : CallExplicit(l, m)
    \/ \E l \in SeqInputs, m \in MappingInputs : CallSpread(l, m)
    \/ PrintArgsHeader
    \/ PrintArg
    \/ PrintKwargsHeader
    \/ PrintKwarg
    \/ Return
    \/ NextCall

StudentNext ==
    \/ \E k \in ConstructInputs : Construct(k)
    \/ PrintJson

AssignNext ==
    \/ \E k \in AssignBaseInputs : Construct(k)
    \/ \E name \in AssignNames : \E value \in AssignInputs(name) : Assign(name, value)
    \/ PrintJson

SpecContact == Init /\ [][ContactNext]_vars
SpecSubject == Init /\ [][SubjectNext]_vars
SpecDemo == Init /\ [][DemoNext]_vars
SpecStudent == Init /\ [][StudentNext]_vars
SpecAssign == Init /\ [][AssignNext]_vars

\* ------------------------------------------------------------- the claims
HyphenOrDigit(p) == \A i \in 1..Len(p) : p[i] \in Digits \cup {"-"}

\* C1: EmergencyContact(phone=p) succeeds if and only if every character of p is
\* a digit or a hyphen, the empty text and texts of hyphens alone included.
C1_PhoneAcceptedIffDigitsOrHyphens ==
    ecCall # None => (~ecRaised <=> HyphenOrDigit(ecCall.phone))

Constructed == phase \in {"built", "printed"}
Supplied(k, f) == f \in DOMAIN k /\ k[f] # None
FieldErrors(r) == {i \in 1..Len(r.errors) : r.errors[i][1] # "__root__"}
RootErrors(r) == {i \in 1..Len(r.errors) : r.errors[i][1] = "__root__"}
EnrollmentOf(k) == IF "enrollment_date" \in DOMAIN k THEN k["enrollment_date"] ELSE today

\* C2: with graduation_year (any integer) and enrollment_date present and every
\* other field valid, Student(...) fails when graduation_year is less than
\* enrollment_date.year and succeeds otherwise.
C2_GraduationYearRule ==
    (phase # "start" /\ Supplied(kw, "graduation_year") /\ FieldErrors(res) = {})
        => (Constructed <=> kw["graduation_year"].val >= EnrollmentOf(kw).year)

\* the keyword arguments that rebuild a Student from its attributes
AsKwargs(obj) == [f \in DOMAIN obj |-> IF f = "password" THEN obj[f].secret ELSE obj[f]]
With(k, name, value) == (name :> value) @@ k

\* C3: an assignment to a field of a constructed Student applies the rules of
\* construction and has two outcomes: it raises and every attribute keeps its
\* value, or it does not raise, only the assigned attribute changes and the
\* record is one that construction accepts as it stands.
C3_AssignmentRevalidates ==
    [][(phase = "built" /\ nAssign' = nAssign + 1) =>
          LET op == lastOp'
              rebuilt == validate_model(With(AsKwargs(student), op.name, op.value), today)
              again == validate_model(AsKwargs(student'), today)
          IN  /\ op.raised <=> rebuilt.errors # <<>>
              /\ op.raised => student' = student
              /\ ~op.raised =>
                    /\ DOMAIN student' = DOMAIN student
                    /\ \A f \in DOMAIN student \ {op.name} : student'[f] = student[f]
                    /\ again.errors = <<>>
                    /\ again.values = student']_vars

C3_Witness ==
    /\ phase = "built"
    /\ nAssign = 2
    /\ lastOp # None
    /\ lastOp.raised
    /\ lastOp.name = "enrollment_date"
    /\ student["gpa"] = 20

InRange(c) == c \in 1..6

\* C4 as stated: once constructed, a Subject's credits is in 1..6 in every later
\* state, alone or held in a Student's subjects.
C4_CreditsAlwaysInRange ==
    subject # None => InRange(subject.credits)

\* C4 as amended: construction yields credits in 1..6; an assignment to credits
\* is accepted without validation and stores the value assigned, in range or
\* not; every other step leaves credits as it was.
C4_CreditsInRangeUntilAssigned ==
    [][LET op == subjCall' IN
       /\ (op.op = "new" /\ ~subjRaised') => InRange(subject'.credits)
       /\ (op.op = "setattr" /\ op.name = "credits") =>
             (~subjRaised' /\ subject'.credits = op.value)
       /\ (op.op = "hold" \/ (op.op = "setattr" /\ op.name # "credits")) =>
             subject'.credits = subject.credits]_vars

C4_Witness ==
    /\ subject # None
    /\ held
    /\ subjCall.op = "setattr"
    /\ subjCall.name = "credits"
    /\ subject.credits = 7

MaskOf(p) == IF p = "" THEN "" ELSE "**********"
JsonWithPassword(p) ==
    LET r == validate_model(With(kw, "password", p), today) IN Json(r.values)

\* C5 as stated: Students that differ only in the password serialize to the same
\* text, and the text does not hold the password.
C5_PasswordNeverExposed ==
    phase = "printed" =>
        /\ \A p \in PasswordInputs : JsonWithPassword(p) = printed
        /\ printed["password"] # [q |-> kw["password"]]

\* C5 as amended: the password is serialized as the mask ********** when it is
\* not empty and as the empty text when it is empty, so Students that differ
\* only in the password serialize to the same text when both passwords are
\* non-empty or both are empty.
C5_PasswordMasked ==
    phase = "printed" =>
        /\ printed["password"] = [q |-> MaskOf(kw["password"])]
        /\ \A p \in PasswordInputs :
              ((p = "") = (kw["password"] = "")) => JsonWithPassword(p) = printed

C5_Witness ==
    /\ phase = "printed"
    /\ kw["password"] = "hunter2"
    /\ printed["password"] = [q |-> "**********"]

WholeYears(t, d) ==
    IF t.month < d.month \/ (t.month = d.month /\ t.day < d.day)
    THEN t.year - d.year - 1
    ELSE t.year - d.year

\* C6: a Student built without age has age = today.year - dob.year, less one
\* when today's (month, day) is strictly before the birthday's.
C6_AgeDerived ==
    (Constructed /\ ~Supplied(kw, "age"))
        => student["age"] = Some(WholeYears(today, kw["date_of_birth"]))

C6_Witness ==
    /\ Constructed
    /\ ~Supplied(kw, "age")
    /\ today = Date(2024, 5, 15)
    /\ kw["date_of_birth"] = Date(2000, 5, 16)
    /\ student["age"] = Some(23)

JoinedName(k) == Some(k["first_name"] \o <<" ">> \o k["last_name"])

\* C7 as stated: without full_name the Student's full_name is first_name, a
\* space, last_name; a full_name supplied is kept as supplied.
C7_FullNameKeptAsSupplied ==
    Constructed =>
        student["full_name"] = IF Supplied(kw, "full_name") THEN kw["full_name"]
                               ELSE JoinedName(kw)

\* C7 as amended: a non-empty full_name supplied is kept as supplied; without
\* full_name, or with an empty one, full_name is first_name, a space, last_name.
C7_FullNameKeptUnlessEmpty ==
    Constructed =>
        student["full_name"] =
            IF Supplied(kw, "full_name") /\ kw["full_name"].val # <<>>
            THEN kw["full_name"]
            ELSE JoinedName(kw)

C7_Witness ==
    /\ Constructed
    /\ Supplied(kw, "full_name")
    /\ kw["full_name"] = Some(<<>>)
    /\ kw["first_name"] = <<"J">>
    /\ kw["last_name"] = <<"s", "J">>
    /\ student["full_name"] = Some(<<"J", " ", "s", "J">>)

\* C8: Subject(credits=c) succeeds if and only if 1 <= c <= 6.
C8_CreditsAcceptedIffInRange ==
    subjCall.op = "new" =>
        /\ ~subjRaised <=> (1 <= subjCall.credits /\ subjCall.credits <= 6)
        /\ ~subjRaised => subject.credits = subjCall.credits

C8_Witness ==
    /\ subjCall.op = "new"
    /\ subjCall.credits = 6
    /\ ~subjRaised
    /\ subject.credits = 6

ExpectedLines(l, m) ==
    <<[header |-> "Positional arguments (*args) received:"]>>
    \o [i \in 1..Len(l) |-> [text |-> "  Argument ", index |-> i - 1, value |-> l[i]]]
    \o <<[header |-> "\nKeyword arguments (**kwargs) received:"]>>
    \o [j \in 1..Len(m) |->
            [indent |-> "  ", key |-> m[j][1], sep |-> ": ", value |-> m[j][2]]]

\* C9: demo_function writes one line per unnamed value with its 0-based index,
\* in order, then one "name: value" line per named value in insertion order;
\* the lines are the same whether the elements are passed one by one or unpacked.
C9_LinesInOrder ==
    LET expected == ExpectedLines(lst, info) IN
    /\ pc \notin {"idle", "done"} =>
          /\ Len(out) <= Len(expected)
          /\ out = SubSeq(expected, 1, Len(out))
    /\ pc = "done" => out = expected

C9_Witness ==
    /\ pc = "done"
    /\ mode = "spread"
    /\ lst = <<10, 20, 10>>
    /\ info = <<<<"fruit", "apple">>, <<"color", "red">>>>
    /\ Len(out) = 7

Position(seq, x) == CHOOSE i \in 1..Len(seq) : seq[i] = x
Occurs(seq, x) == \E i \in 1..Len(seq) : seq[i] = x

\* C10 as stated: when a field fails, the cross-field check is not run and
\* contributes no error.
C10_RootSkippedWhenFieldFails ==
    (phase = "failed" /\ FieldErrors(res) # {})
        => (~Occurs(res.ran, "check_graduation_year") /\ RootErrors(res) = {})

\* C10 as amended: the cross-field check runs last and in every construction,
\* failed fields or not, on the fields that passed; it adds an error exactly when
\* a non-zero graduation_year is less than enrollment_date.year; full_name and
\* age are derived before it, from fields that have passed validation.
C10_RootRunsLastAlways ==
    phase # "start" =>
        /\ res.ran # <<>>
        /\ \A i \in 1..Len(res.ran) :
              (res.ran[i] = "check_graduation_year") = (i = Len(res.ran))
        /\ (RootErrors(res) # {}) =
              (/\ Supplied(kw, "graduation_year")
               /\ kw["graduation_year"].val # 0
               /\ kw["graduation_year"].val < EnrollmentOf(kw).year)
        /\ Occurs(res.ran, "set_full_name") /\ Occurs(res.ran, "calculate_age")
        /\ ~Supplied(kw, "full_name") =>
              res.values["full_name"] =
                  IF {"first_name", "last_name"} \subseteq DOMAIN res.values
                  THEN Some(res.values["first_name"] \o <<" ">> \o res.values["last_name"])
                  ELSE None
        /\ \A f \in {"first_name", "last_name"} :
              Occurs(res.ran, f) => Position(res.ran, f) < Position(res.ran, "set_full_name")
        /\ Occurs(res.ran, "date_of_birth") =>
              Position(res.ran, "date_of_birth") < Position(res.ran, "calculate_age")

C10_Witness ==
    /\ phase = "failed"
    /\ \E i \in FieldErrors(res) : res.errors[i] = <<"email", "value_error.email">>
    /\ RootErrors(res) # {}
    /\ res.ran[Len(res.ran)] = "check_graduation_year"

====
